---------------------------- MODULE Spec2Model ----------------------------
(***************************************************************************)
(* A model of mcp-fetch (src/index.ts): the tools/call request handler,    *)
(* fetchUrl, extractContentFromHtml and the pagination of the result.      *)
(*                                                                         *)
(* Strings the code inspects (the body, the content-type header, the       *)
(* notes it writes) are sequences of one-character strings, so that        *)
(* toLowerCase, includes, slice and length are computed as JavaScript      *)
(* computes them.  URLs are opaque tokens: the code never looks inside.    *)
(* An optional argument is a set with at most one element ({} = absent).   *)
(* Numbers are integers: the windows the pagination contract speaks of.    *)
(***************************************************************************)
EXTENDS Integers, Sequences, FiniteSets, TLC

\* ------------------------------------------------------------------ bounds
\* Longest text that is paginated, and the largest window tried on it.
MaxLen == 4
\* Most image elements in an extracted content region (above the cap of 10).
MaxImages == 12

\* ------------------------------------------------------- program constants
\* .slice(0, 10): the cap on image URLs.
ImageLimit == 10
\* z.number().positive().max(1000000).default(20000)
MaxLengthLimit == 1000000
DefaultMaxLength == 20000
\* z.number().min(0).default(0)
DefaultStartIndex == 0

\* ----------------------------------------------------------------- strings
Min(a, b) == IF a < b THEN a ELSE b
Max(a, b) == IF a > b THEN a ELSE b

UpperAlpha ==
  <<"A", "B", "C", "D", "E", "F", "G", "H", "I", "J", "K", "L", "M",
    "N", "O", "P", "Q", "R", "S", "T", "U", "V", "W", "X", "Y", "Z">>
LowerAlpha ==
  <<"a", "b", "c", "d", "e", "f", "g", "h", "i", "j", "k", "l", "m",
    "n", "o", "p", "q", "r", "s", "t", "u", "v", "w", "x", "y", "z">>

\* String.prototype.toLowerCase
ToLowerCase(s) ==
  [i \in 1..Len(s) |->
     IF \E k \in 1..Len(UpperAlpha) : UpperAlpha[k] = s[i]
     THEN LowerAlpha[CHOOSE k \in 1..Len(UpperAlpha) : UpperAlpha[k] = s[i]]
     ELSE s[i]]

\* String.prototype.includes (case-sensitive substring test)
Includes(s, sub) ==
  \E i \in 0..(Len(s) - Len(sub)) : SubSeq(s, i + 1, i + Len(sub)) = sub

\* String.prototype.slice(start, end) / Array.prototype.slice on integers:
\* a negative index counts from the end, both ends are clamped to the length.
JsSlice(s, start, end) ==
  LET len  == Len(s)
      from == IF start < 0 THEN Max(len + start, 0) ELSE Min(start, len)
      to   == IF end < 0 THEN Max(len + end, 0) ELSE Min(end, len)
  IN  IF from >= to THEN <<>> ELSE SubSeq(s, from + 1, to)

\* The strings of the source.
FailureNote ==
  <<"<", "e", ">", "P", "a", "g", "e", " ", "f", "a", "i", "l", "e", "d", " ",
    "t", "o", " ", "b", "e", " ", "s", "i", "m", "p", "l", "i", "f", "i", "e",
    "d", " ", "f", "r", "o", "m", " ", "H", "T", "M", "L", "<", "/", "e", ">">>
HtmlMarker == <<"<", "h", "t", "m", "l">>
MimeHtml == <<"t", "e", "x", "t", "/", "h", "t", "m", "l">>
MimePdf ==
  <<"a", "p", "p", "l", "i", "c", "a", "t", "i", "o", "n", "/", "p", "d", "f">>
RawPrefixHead ==
  <<"C", "o", "n", "t", "e", "n", "t", " ", "t", "y", "p", "e", " ">>
RawPrefixTail ==
  <<" ", "c", "a", "n", "n", "o", "t", " ", "b", "e", " ", "s", "i", "m", "p",
    "l", "i", "f", "i", "e", "d", " ", "t", "o", " ", "m", "a", "r", "k", "d",
    "o", "w", "n", ",", " ", "b", "u", "t", " ", "h", "e", "r", "e", " ", "i",
    "s", " ", "t", "h", "e", " ", "r", "a", "w", " ", "c", "o", "n", "t", "e",
    "n", "t", ":", "\n">>

\* ------------------------------------------------------ argument validation
ValidUrls == {"https://a.example/doc", "https://b.example/doc"}

\* An optional value: the given one, or the schema's default.
OrDefault(opt, d) == IF opt = {} THEN d ELSE CHOOSE v \in opt : TRUE

\* FetchArgsSchema.safeParse(args)
FetchArgsSchema(args) ==
  LET maxLength  == OrDefault(args.maxLength, DefaultMaxLength)
      startIndex == OrDefault(args.startIndex, DefaultStartIndex)
      raw        == OrDefault(args.raw, FALSE)
  IN  [success |-> /\ args.url \in ValidUrls
                   /\ maxLength > 0
                   /\ maxLength <= MaxLengthLimit
                   /\ startIndex >= 0,
       data    |-> [url |-> args.url, maxLength |-> maxLength,
                    startIndex |-> startIndex, raw |-> raw]]

NoData == [url |-> "", maxLength |-> DefaultMaxLength,
           startIndex |-> DefaultStartIndex, raw |-> FALSE]

\* ------------------------------------------------ extractContentFromHtml
\* What Readability and Turndown make of a page is the document's own:
\* article.parsed = FALSE is reader.parse() returning null, article.content
\* is the serialized content region as its sequence of nodes (empty: no
\* content), article.markdown is what turndown() returns for that region.
IsImg(node) == node.tag = "img"

\* querySelectorAll("img") on the article content, mapped to {src, alt}
Images(content) == SelectSeq(content, IsImg)

NoImages == [defined |-> FALSE, urls |-> <<>>]

ExtractContentFromHtml(article) ==
  IF ~article.parsed \/ article.content = <<>>
  THEN [failed |-> TRUE, note |-> FailureNote, markdown |-> <<>>,
        images |-> <<>>]
  ELSE [failed |-> FALSE, note |-> <<>>, markdown |-> article.markdown,
        images |-> Images(article.content)]

\* ----------------------------------------------------------------- fetchUrl
IsHtml(text, contentType) ==
  Includes(ToLowerCase(text), HtmlMarker) \/ Includes(contentType, MimeHtml)

IsPdf(contentType) == Includes(contentType, MimePdf)

\* A faulty variant: the PDF test is made before the HTML test.
PdfFirstClass(text, contentType, forceRaw) ==
  IF IsPdf(contentType) /\ ~forceRaw THEN "PDF"
  ELSE IF IsHtml(text, contentType) /\ ~forceRaw THEN "HTML"
  ELSE "Opaque"

\* The branch fetchUrl takes: the two guarded ifs, then the fall-through.
ContentClass(text, contentType, forceRaw) ==
  IF IsHtml(text, contentType) /\ ~forceRaw THEN "HTML"
  ELSE IF IsPdf(contentType) /\ ~forceRaw THEN "PDF"
  ELSE "Opaque"

\* A faulty variant: the cap is forgotten.
UncappedImageUrls(images) == [i \in 1..Len(images) |-> images[i].src]

\* images.map((img) => img.src).slice(0, 10)
ImageUrls(images) ==
  JsSlice([i \in 1..Len(images) |-> images[i].src], 0, ImageLimit)

\* `Content type ${contentType} cannot be simplified to markdown, ...`
RawPrefix(contentType) == RawPrefixHead \o contentType \o RawPrefixTail

FetchResult(branch, content, prefix, imageUrls) ==
  [threw |-> FALSE, error |-> "", branch |-> branch, content |-> content,
   prefix |-> prefix, imageUrls |-> imageUrls]

Thrown(branch, error) ==
  [threw |-> TRUE, error |-> error, branch |-> branch, content |-> <<>>,
   prefix |-> <<>>, imageUrls |-> NoImages]

NoResult == Thrown("none", "")

\* A faulty variant: a failed extraction is thrown.
ThrowingHtmlBranch(article) ==
  LET result == ExtractContentFromHtml(article)
  IN  IF result.failed
      THEN Thrown("HTML", "extraction")
      ELSE FetchResult("HTML", result.markdown, <<>>,
                       [defined |-> TRUE, urls |-> ImageUrls(result.images)])

\* The HTML branch: a failed extraction is returned as content.
HtmlBranch(article) ==
  LET result == ExtractContentFromHtml(article)
  IN  IF result.failed
      THEN FetchResult("HTML", result.note, <<>>, NoImages)
      ELSE FetchResult("HTML", result.markdown, <<>>,
                       [defined |-> TRUE, urls |-> ImageUrls(result.images)])

\* The PDF branch.  The body was already read by response.text(), and a
\* second read of a consumed body is rejected ("body used already"); pdf-parse
\* rejects bytes it cannot parse.  Neither is caught in fetchUrl.  pdf.kind
\* ranges over what the two library calls can do with a response:
\* "body_used", "parse_error", "no_text" (a result without text, hence "") or
\* "text".
PdfBranch(pdf) ==
  CASE pdf.kind = "body_used"   -> Thrown("PDF", "body used already")
    [] pdf.kind = "parse_error" -> Thrown("PDF", "pdf parse error")
    [] pdf.kind = "no_text"     ->
         FetchResult("PDF", <<>>, <<>>, [defined |-> TRUE, urls |-> <<>>])
    [] OTHER                    ->
         FetchResult("PDF", pdf.text, <<>>, [defined |-> TRUE, urls |-> <<>>])

\* A faulty variant: the note is left out.
UnprefixedOpaqueBranch(text, contentType) ==
  FetchResult("Opaque", text, <<>>, NoImages)

\* The fall-through return: the body as it is, under a note.
OpaqueBranch(text, contentType) ==
  FetchResult("Opaque", text, RawPrefix(contentType), NoImages)

\* response.headers.get("content-type") || ""
ContentType(header) == IF header.present THEN header.value ELSE <<>>

\* fetchUrl from the point where the response is ok and its text is read.
FetchUrl(w, forceRaw) ==
  LET contentType == ContentType(w.header)
      class       == ContentClass(w.text, contentType, forceRaw)
  IN  CASE class = "HTML" -> HtmlBranch(w.article)
        [] class = "PDF"  -> PdfBranch(w.pdf)
        [] OTHER          -> OpaqueBranch(w.text, contentType)

\* ------------------------------------------------------------- pagination
\* A faulty variant: the slice ends one character early.
OffByOnePaginate(content, startIndex, maxLength) ==
  IF Len(content) > maxLength
  THEN [slice  |-> JsSlice(content, startIndex, startIndex + maxLength - 1),
        marker |-> <<startIndex + maxLength>>]
  ELSE [slice |-> content, marker |-> <<>>]

\* A faulty variant: the notice names the index after the next one.
SkippingPaginate(content, startIndex, maxLength) ==
  IF Len(content) > maxLength
  THEN [slice  |-> JsSlice(content, startIndex, startIndex + maxLength),
        marker |-> <<startIndex + maxLength + 1>>]
  ELSE [slice |-> content, marker |-> <<>>]

\* finalContent: the slice, and the "Content truncated" notice when written
\* (marker = <<n>>: the notice naming start_index n; <<>>: no notice).

Paginate(content, startIndex, maxLength) ==
  IF Len(content) > maxLength
  THEN [slice  |-> JsSlice(content, startIndex, startIndex + maxLength),
        marker |-> <<startIndex + maxLength>>]
  ELSE [slice |-> content, marker |-> <<>>]

\* imagesSection: the URLs listed under "Images found in page:", if any.
ImagesSection(imageUrls) ==
  IF imageUrls.defined /\ Len(imageUrls.urls) > 0 THEN imageUrls.urls ELSE <<>>

\* The handler's return values.  A result's text is
\* `${prefix}Contents of ${url}:\n${finalContent}${imagesSection}`.
ResultResponse(prefix, url, finalContent, imagesSection) ==
  [sent |-> TRUE, isError |-> FALSE, error |-> "", prefix |-> prefix,
   url |-> url, finalContent |-> finalContent,
   imagesSection |-> imagesSection]

ErrorResponse(error) ==
  [sent |-> TRUE, isError |-> TRUE, error |-> error, prefix |-> <<>>,
   url |-> "", finalContent |-> [slice |-> <<>>, marker |-> <<>>],
   imagesSection |-> <<>>]

NoResponse ==
  [sent |-> FALSE, isError |-> FALSE, error |-> "", prefix |-> <<>>,
   url |-> "", finalContent |-> [slice |-> <<>>, marker |-> <<>>],
   imagesSection |-> <<>>]


\* ---------------------------------------------------------------- the state
Reqs == {1, 2}

VARIABLES
  req,      \* req[r]: the tools/call request r as the client sends it
  net,      \* net[r]: what the remote server makes of request r's retrieval
  pc,       \* pc[r]: "idle", "fetching", "reading" or "done"
  parsed,   \* parsed[r]: parsed.data once the arguments are validated
  fetches,  \* fetches[r]: the retrievals the handler has issued for r
  aborted,  \* aborted[r]: "no", or where r was when extra.signal fired
  fetched,  \* fetched[r]: what fetchUrl returned (or that it threw)
  resp,     \* resp[r]: the handler's return value
  starts,   \* starts[r]: the startIndex of each earlier page of a paging client
  acc       \* acc[r]: the slices of those pages, concatenated

vars == <<req, net, pc, parsed, fetches, aborted, fetched, resp, starts, acc>>

\* --------------------------------------------------------------- documents
Letters == <<"a", "b", "c", "d", "e", "f", "g", "h">>

\* A text of n characters, each telling its position (modulo the alphabet).
Text(n) == [i \in 1..n |-> Letters[((i - 1) % Len(Letters)) + 1]]

PNode == [tag |-> "p", src |-> 0, alt |-> ""]

\* The i-th image of a region; its resolved src is identified by i.
ImgNode(i) == [tag |-> "img", src |-> i, alt |-> IF i % 2 = 0 THEN "" ELSE "A"]

\* A content region with n images, in document order, between paragraphs.
Region(n) ==
  [i \in 1..(2 * n + 1) |-> IF i % 2 = 1 THEN PNode ELSE ImgNode(i \div 2)]

NullArticle == [parsed |-> FALSE, content |-> <<>>, markdown |-> <<>>]
EmptyArticle == [parsed |-> TRUE, content |-> <<>>, markdown |-> <<>>]
Article(n, markdown) ==
  [parsed |-> TRUE, content |-> Region(n), markdown |-> markdown]

Header(value) == [present |-> TRUE, value |-> value]
NoHeader == [present |-> FALSE, value |-> <<>>]

Pdf(kind, text) == [kind |-> kind, text |-> text]

World(outcome, status, header, text, article, pdf) ==
  [outcome |-> outcome, status |-> status, header |-> header, text |-> text,
   article |-> article, pdf |-> pdf]

Args(url, maxLength, startIndex, raw) ==
  [url |-> url, maxLength |-> maxLength, startIndex |-> startIndex,
   raw |-> raw]

Call(name, arguments) ==
  [present |-> TRUE, name |-> name, arguments |-> arguments]

\* A request the client never sends.
NoRequest == [present |-> FALSE, name |-> "", arguments |-> Args("", {}, {}, {})]

Url == "https://a.example/doc"

MimeJson ==
  <<"a", "p", "p", "l", "i", "c", "a", "t", "i", "o", "n", "/", "j", "s", "o",
    "n">>
MimePlain == <<"t", "e", "x", "t", "/", "p", "l", "a", "i", "n">>
MimeHtmlCharset ==
  <<"t", "e", "x", "t", "/", "h", "t", "m", "l", ";", " ", "c", "h", "a", "r",
    "s", "e", "t", "=", "u", "t", "f", "-", "8">>
\* Two Content-Type headers, joined by the Headers object.
MimeHtmlAndPdf ==
  <<"t", "e", "x", "t", "/", "h", "t", "m", "l", ",", " ", "a", "p", "p", "l",
    "i", "c", "a", "t", "i", "o", "n", "/", "p", "d", "f">>

BodyHtml ==
  <<"<", "h", "t", "m", "l", ">", "<", "b", "o", "d", "y", ">", "x", "<", "/",
    "b", "o", "d", "y", ">", "<", "/", "h", "t", "m", "l", ">">>
BodyHtmlMixedCase == <<"<", "H", "t", "M", "l", ">">>
BodyJson == <<"{", "\"", "a", "\"", ":", "1", "}">>
BodyPdf == <<"%", "P", "D", "F", "-", "1", ".", "4">>

Headers ==
  {NoHeader, Header(MimeHtml), Header(MimeHtmlCharset), Header(MimePdf),
   Header(MimeJson), Header(MimeHtmlAndPdf)}
Bodies == {BodyHtml, BodyHtmlMixedCase, BodyJson, BodyPdf}
Articles ==
  {NullArticle, EmptyArticle} \cup {Article(n, Text(3)) : n \in 0..MaxImages}
Pdfs ==
  {Pdf("body_used", <<>>), Pdf("parse_error", <<>>), Pdf("no_text", <<>>),
   Pdf("text", Text(2))}

\* ---------------------------------------------------------------- scenarios
\* Paging: every window on every short text, served as plain text or as the
\* markdown of a page.
PageCalls ==
  {Call("fetch", Args(Url, {m}, s, raw)) :
     m \in 1..(MaxLen + 1),
     s \in {{}} \cup {{k} : k \in 0..(MaxLen + 1)},
     raw \in {{}, {TRUE}}}
PageWorlds ==
  {World("response", 200, Header(MimePlain), Text(n), NullArticle,
         Pdf("body_used", <<>>)) : n \in 0..MaxLen}
  \cup
  {World("response", 200, Header(MimeHtml), BodyHtml, Article(2, Text(n)),
         Pdf("body_used", <<>>)) : n \in 0..MaxLen}

\* Documents: every header, body, extraction outcome and PDF outcome, under a
\* few windows around the length of the failure note.
DocCalls ==
  {Call("fetch", Args(Url, m, s, raw)) :
     m \in {{}, {Len(FailureNote)}, {Len(FailureNote) - 1}},
     s \in {{}, {1}},
     raw \in {{}, {TRUE}}}
DocWorlds ==
  {World("response", 200, h, b, a, p) :
     h \in Headers, b \in Bodies, a \in Articles, p \in Pdfs}

\* Requests the handler rejects, and retrievals that fail.
BadCalls ==
  {Call("other", Args(Url, {}, {}, {})),
   Call("fetch", Args("not a url", {}, {}, {})),
   Call("fetch", Args(Url, {0}, {}, {})),
   Call("fetch", Args(Url, {MaxLengthLimit + 1}, {}, {})),
   Call("fetch", Args(Url, {MaxLengthLimit}, {-1}, {}))}
PlainWorld ==
  World("response", 200, Header(MimePlain), Text(2), NullArticle,
        Pdf("body_used", <<>>))
FailingWorlds ==
  {World("network_error", 0, NoHeader, <<>>, NullArticle,
         Pdf("body_used", <<>>))}
  \cup
  {World("response", st, Header(MimeHtml), BodyHtml, Article(1, Text(2)),
         Pdf("body_used", <<>>)) : st \in {199, 299, 300, 404, 500}}

\* Two requests in flight at once.
ConcCalls ==
  {Call("fetch", Args(Url, {}, {}, {FALSE})),
   Call("fetch", Args(Url, {2}, {1}, {})),
   Call("fetch", Args("https://b.example/doc", {2}, {1}, {TRUE})),
   Call("other", Args(Url, {}, {}, {}))}
ConcWorlds ==
  {PlainWorld,
   World("network_error", 0, NoHeader, <<>>, NullArticle,
         Pdf("body_used", <<>>)),
   World("response", 200, Header(MimeHtml), BodyHtml, Article(2, Text(3)),
         Pdf("body_used", <<>>)),
   World("response", 200, Header(MimeHtml), BodyHtml, NullArticle,
         Pdf("body_used", <<>>)),
   World("response", 200, Header(MimePdf), BodyPdf, NullArticle,
         Pdf("parse_error", <<>>))}

One(call, world) ==
  /\ req = [r \in Reqs |-> IF r = 1 THEN call ELSE NoRequest]
  /\ net = [r \in Reqs |-> IF r = 1 THEN world ELSE PlainWorld]

Scenario ==
  \/ \E c \in PageCalls, w \in PageWorlds : One(c, w)
  \/ \E c \in DocCalls, w \in DocWorlds : One(c, w)
  \/ \E c \in BadCalls : One(c, PlainWorld)
  \/ \E w \in FailingWorlds : One(Call("fetch", Args(Url, {}, {}, {})), w)
  \/ /\ req \in [Reqs -> ConcCalls]
     /\ net \in [Reqs -> ConcWorlds]

Init ==
  /\ Scenario
  /\ pc = [r \in Reqs |-> "idle"]
  /\ parsed = [r \in Reqs |-> NoData]
  /\ fetches = [r \in Reqs |-> 0]
  /\ aborted = [r \in Reqs |-> "no"]
  /\ fetched = [r \in Reqs |-> NoResult]
  /\ resp = [r \in Reqs |-> NoResponse]
  /\ starts = [r \in Reqs |-> <<>>]
  /\ acc = [r \in Reqs |-> <<>>]

\* ------------------------------------------------------------------ actions
\* The handler returns: r is done with this response.
Return(r, response) ==
  /\ resp' = [resp EXCEPT ![r] = response]
  /\ pc' = [pc EXCEPT ![r] = "done"]

\* tools/call arrives: the tool name and the arguments are checked, and
\* fetchUrl issues the retrieval (without extra.signal).
CallTool(r) ==
  /\ req[r].present
  /\ pc[r] = "idle"
  /\ LET p == FetchArgsSchema(req[r].arguments)
     IN  IF req[r].name # "fetch"
         THEN /\ Return(r, ErrorResponse("Unknown tool"))
              /\ UNCHANGED <<parsed, fetches>>
         ELSE IF ~p.success
         THEN /\ Return(r, ErrorResponse("Invalid arguments"))
              /\ UNCHANGED <<parsed, fetches>>
         ELSE /\ parsed' = [parsed EXCEPT ![r] = p.data]
              /\ fetches' = [fetches EXCEPT ![r] = @ + 1]
              /\ pc' = [pc EXCEPT ![r] = "fetching"]
              /\ UNCHANGED resp
  /\ UNCHANGED <<req, net, aborted, fetched, starts, acc>>

\* fetch() rejects (no connection): the handler's catch answers.
FetchRejects(r) ==
  /\ pc[r] = "fetching"
  /\ net[r].outcome = "network_error"
  /\ Return(r, ErrorResponse("fetch failed"))
  /\ UNCHANGED <<req, net, parsed, fetches, aborted, fetched, starts, acc>>

\* response.ok
Ok(status) == status >= 200 /\ status <= 299

\* fetch() resolves: a response that is not ok is thrown, else its text is
\* awaited.
FetchResolves(r) ==
  /\ pc[r] = "fetching"
  /\ net[r].outcome = "response"
  /\ IF ~Ok(net[r].status)
     THEN Return(r, ErrorResponse("Failed to fetch - status code"))
     ELSE /\ pc' = [pc EXCEPT ![r] = "reading"]
          /\ UNCHANGED resp
  /\ UNCHANGED <<req, net, parsed, fetches, aborted, fetched, starts, acc>>

\* response.text() resolves: the rest of fetchUrl, then the pagination and
\* the response of the handler (or its catch, when fetchUrl threw).
TextResolves(r) ==
  /\ pc[r] = "reading"
  /\ LET result == FetchUrl(net[r], parsed[r].raw)
     IN  /\ fetched' = [fetched EXCEPT ![r] = result]
         /\ IF result.threw
            THEN Return(r, ErrorResponse(result.error))
            ELSE Return(r, ResultResponse(
                   result.prefix, parsed[r].url,
                   Paginate(result.content, parsed[r].startIndex,
                            parsed[r].maxLength),
                   ImagesSection(result.imageUrls)))
  /\ UNCHANGED <<req, net, parsed, fetches, aborted, starts, acc>>

\* The client cancels r while its handler is suspended: extra.signal fires.
\* Nothing in the handler or in fetchUrl listens to it.
Abort(r) ==
  /\ pc[r] \in {"fetching", "reading"}
  /\ aborted[r] = "no"
  /\ aborted' = [aborted EXCEPT ![r] = pc[r]]
  /\ UNCHANGED <<req, net, pc, parsed, fetches, fetched, resp, starts, acc>>

\* A paging client: the result carries the truncation notice and the start
\* index it names is inside the text, so the client keeps the slice and calls
\* again with that start index.
ClientNextPage(r) ==
  /\ pc[r] = "done"
  /\ ~resp[r].isError
  /\ resp[r].finalContent.marker # <<>>
  /\ resp[r].finalContent.marker[1] < Len(fetched[r].content)
  /\ acc' = [acc EXCEPT ![r] = @ \o resp[r].finalContent.slice]
  /\ starts' = [starts EXCEPT ![r] = Append(@, parsed[r].startIndex)]
  /\ req' = [req EXCEPT ![r].arguments.startIndex =
                          {resp[r].finalContent.marker[1]}]
  /\ pc' = [pc EXCEPT ![r] = "idle"]
  /\ parsed' = [parsed EXCEPT ![r] = NoData]
  /\ fetches' = [fetches EXCEPT ![r] = 0]
  /\ aborted' = [aborted EXCEPT ![r] = "no"]
  /\ fetched' = [fetched EXCEPT ![r] = NoResult]
  /\ resp' = [resp EXCEPT ![r] = NoResponse]
  /\ UNCHANGED net

Next ==
  \E r \in Reqs :
    \/ CallTool(r)
    \/ FetchRejects(r)
    \/ FetchResolves(r)
    \/ TextResolves(r)
    \/ Abort(r)
    \/ ClientNextPage(r)

Spec == Init /\ [][Next]_vars

\* ------------------------------------------------------------------ claims
\* Request r has returned a result (not an error).
HasResult(r) == pc[r] = "done" /\ resp[r].sent /\ ~resp[r].isError

\* The text fetchUrl returned for r, the window asked for, what came back.
ContentOf(r) == fetched[r].content
StartOf(r) == parsed[r].startIndex
MaxOf(r) == parsed[r].maxLength
SliceOf(r) == resp[r].finalContent.slice
Truncated(r) == resp[r].finalContent.marker # <<>>

\* text[from .. to) with 0-based indices
Chars(text, from, to) == SubSeq(text, from + 1, to)

\* C1: in-window case.  Whenever startIndex < L and L - startIndex <=
\* maxLength, the slice returned is text[startIndex .. L) and no truncation
\* notice is written.
C1_InWindowReturnsRemainder ==
  \A r \in Reqs :
    (/\ HasResult(r)
     /\ StartOf(r) < Len(ContentOf(r))
     /\ Len(ContentOf(r)) - StartOf(r) <= MaxOf(r))
    => /\ SliceOf(r) = Chars(ContentOf(r), StartOf(r), Len(ContentOf(r)))
       /\ ~Truncated(r)

\* C2: out-of-range start.  Whenever startIndex >= L, the slice returned is
\* empty and no truncation notice is written.
C2_OutOfRangeStartIsEmpty ==
  \A r \in Reqs :
    (HasResult(r) /\ StartOf(r) >= Len(ContentOf(r)))
    => (SliceOf(r) = <<>> /\ ~Truncated(r))

\* C3: truncating case.  Whenever L - startIndex > maxLength, the slice is
\* exactly the maxLength characters text[startIndex .. startIndex +
\* maxLength), the truncation notice is written, and the start index it names
\* is startIndex + maxLength.
C3_TruncatingWindow ==
  \A r \in Reqs :
    (HasResult(r) /\ Len(ContentOf(r)) - StartOf(r) > MaxOf(r))
    => /\ SliceOf(r) = Chars(ContentOf(r), StartOf(r), StartOf(r) + MaxOf(r))
       /\ Len(SliceOf(r)) = MaxOf(r)
       /\ resp[r].finalContent.marker = <<StartOf(r) + MaxOf(r)>>

\* A truncating window that does not start at 0 has been served.
C3_Witness ==
  \E r \in Reqs :
    /\ HasResult(r)
    /\ StartOf(r) > 0
    /\ Len(ContentOf(r)) - StartOf(r) > MaxOf(r)
    /\ Truncated(r)

\* The start indices of r's pages so far, this one included.
PageStarts(r) == Append(starts[r], StartOf(r))

\* r's result is the last page: no notice, or one that points past the text.
LastPage(r) ==
  /\ HasResult(r)
  /\ Truncated(r) => resp[r].finalContent.marker[1] >= Len(ContentOf(r))

\* C4: reconstruction.  A client that starts at 0 and follows the start index
\* of each truncation notice while it is inside the text asks for 0, M, 2M,
\* ..., and the slices it got, concatenated, are the text.
C4_PagesReconstructText ==
  \A r \in Reqs :
    (HasResult(r) /\ PageStarts(r)[1] = 0)
    => /\ \A i \in 1..Len(PageStarts(r)) : PageStarts(r)[i] = (i - 1) * MaxOf(r)
       /\ acc[r] = Chars(ContentOf(r), 0, Min(StartOf(r), Len(ContentOf(r))))
       /\ LastPage(r) => acc[r] \o SliceOf(r) = ContentOf(r)

\* A text that took three pages or more, the last one shorter than the rest.
C4_Witness ==
  \E r \in Reqs :
    /\ LastPage(r)
    /\ PageStarts(r)[1] = 0
    /\ Len(PageStarts(r)) >= 3
    /\ Len(SliceOf(r)) < MaxOf(r)
    /\ Len(SliceOf(r)) > 0

\* The four facts the classification policy is stated over.
ForceRaw(r) == parsed[r].raw
DeclaredHtml(r) == Includes(ContentType(net[r].header), MimeHtml)
HasHtmlMarker(r) == Includes(ToLowerCase(net[r].text), HtmlMarker)
DeclaredPdf(r) == Includes(ContentType(net[r].header), MimePdf)

\* The ordered first-match policy.
Policy(forceRaw, declaredHtml, htmlMarker, declaredPdf) ==
  IF forceRaw THEN "Opaque"
  ELSE IF declaredHtml \/ htmlMarker THEN "HTML"
  ELSE IF declaredPdf THEN "PDF"
  ELSE "Opaque"

\* fetchUrl has classified r's response.
Classified(r) == pc[r] = "done" /\ fetched[r].branch # "none"

\* C5: the branch fetchUrl takes is the one the ordered first-match policy
\* names: raw => Opaque; else HTML MIME or marker => HTML; else PDF MIME =>
\* PDF; else Opaque.  It is always one of the three.
C5_ClassificationPolicy ==
  \A r \in Reqs :
    Classified(r)
    => /\ fetched[r].branch \in {"HTML", "PDF", "Opaque"}
       /\ fetched[r].branch =
            Policy(ForceRaw(r), DeclaredHtml(r), HasHtmlMarker(r),
                   DeclaredPdf(r))

\* A response declared as PDF whose body holds the HTML marker went the HTML
\* way.
C5_Witness ==
  \E r \in Reqs :
    /\ Classified(r)
    /\ ~ForceRaw(r)
    /\ DeclaredPdf(r)
    /\ ~DeclaredHtml(r)
    /\ HasHtmlMarker(r)
    /\ fetched[r].branch = "HTML"

\* The errors that are a failed retrieval or rejected arguments.
RetrievalOrValidation ==
  {"Unknown tool", "Invalid arguments", "fetch failed",
   "Failed to fetch - status code"}

\* The extraction of r's PDF failed: its bytes could not be read again, or
\* could not be parsed.
PdfExtractionFailed(r) ==
  /\ Classified(r)
  /\ fetched[r].branch = "PDF"
  /\ net[r].pdf.kind \in {"body_used", "parse_error"}

\* C6: extraction-stage failures are never fatal.  A PDF whose extraction
\* fails gives a result with empty text, not an error, and an error response
\* is only ever due to a failed retrieval or to invalid arguments.
C6_ExtractionFailureNotFatal ==
  \A r \in Reqs :
    /\ PdfExtractionFailed(r)
       => (HasResult(r) /\ SliceOf(r) = <<>> /\ ~Truncated(r))
    /\ (pc[r] = "done" /\ resp[r].isError)
       => resp[r].error \in RetrievalOrValidation

\* Structural extraction found no content region in r's HTML document.
ExtractionFailed(r) ==
  /\ Classified(r)
  /\ fetched[r].branch = "HTML"
  /\ (~net[r].article.parsed \/ net[r].article.content = <<>>)

\* The response is a result without prefix note and without media references.
BareResult(r) ==
  /\ HasResult(r)
  /\ resp[r].prefix = <<>>
  /\ resp[r].imagesSection = <<>>

\* C7 as stated: when extraction finds no content region, the response is a
\* result whose content text is the failure note, with an empty prefix note
\* and no media references.
C7_FailureNoteIsTheContent ==
  \A r \in Reqs :
    ExtractionFailed(r)
    => /\ BareResult(r)
       /\ SliceOf(r) = FailureNote
       /\ ~Truncated(r)

\* C7, amended: when extraction finds no content region, the response is a
\* result with an empty prefix note and no media references; its content
\* text is the failure note when maxLength is at least the note's length, and
\* else the characters of the note from startIndex on, at most maxLength of
\* them, followed by the truncation notice.
C7_FailureNoteWithinWindow ==
  \A r \in Reqs :
    ExtractionFailed(r)
    => /\ BareResult(r)
       /\ MaxOf(r) >= Len(FailureNote)
          => (SliceOf(r) = FailureNote /\ ~Truncated(r))
       /\ MaxOf(r) < Len(FailureNote)
          => /\ SliceOf(r) =
                  Chars(FailureNote, Min(StartOf(r), Len(FailureNote)),
                        Min(StartOf(r) + MaxOf(r), Len(FailureNote)))
             /\ Truncated(r)

\* Readability returned no article, and the note came back whole.
C7_Witness ==
  \E r \in Reqs :
    /\ ExtractionFailed(r)
    /\ ~net[r].article.parsed
    /\ HasResult(r)
    /\ SliceOf(r) = FailureNote

\* The images of r's extracted content region, in document order (none when
\* no region was extracted).
RegionImages(r) ==
  IF fetched[r].branch = "HTML" /\ ~ExtractionFailed(r)
  THEN SelectSeq(net[r].article.content, IsImg)
  ELSE <<>>

\* C8: the media references of a result are at most 10, they are the first
\* min(n, 10) images of the extracted region in document order, and two
\* results for the same document differ in them for no window.
C8_MediaRefsCapped ==
  \A r \in Reqs :
    HasResult(r)
    => /\ Len(resp[r].imagesSection) <= 10
       /\ Len(resp[r].imagesSection) = Min(Len(RegionImages(r)), 10)
       /\ \A i \in 1..Len(resp[r].imagesSection) :
            resp[r].imagesSection[i] = RegionImages(r)[i].src
       /\ \A q \in Reqs :
            (HasResult(q) /\ net[q] = net[r] /\ ForceRaw(q) = ForceRaw(r))
            => resp[q].imagesSection = resp[r].imagesSection

\* A region with more than 10 images gave exactly 10 references.
C8_Witness ==
  \E r \in Reqs :
    /\ HasResult(r)
    /\ Len(RegionImages(r)) > 10
    /\ Len(resp[r].imagesSection) = 10

\* r's response was classified as Opaque by the policy.
IsOpaque(r) ==
  /\ Classified(r)
  /\ Policy(ForceRaw(r), DeclaredHtml(r), HasHtmlMarker(r), DeclaredPdf(r))
       = "Opaque"

\* C9: for an Opaque input the response is a result whose prefix note is not
\* empty and names the declared content type, whose media references are
\* empty, and whose text, when the window starts at 0 and holds the whole
\* body, is the body unchanged.
C9_OpaquePassThrough ==
  \A r \in Reqs :
    IsOpaque(r)
    => /\ HasResult(r)
       /\ resp[r].prefix # <<>>
       /\ resp[r].prefix =
            RawPrefixHead \o ContentType(net[r].header) \o RawPrefixTail
       /\ resp[r].imagesSection = <<>>
       /\ (StartOf(r) = 0 /\ Len(net[r].text) <= MaxOf(r))
          => (SliceOf(r) = net[r].text /\ ~Truncated(r))

\* raw = true on an HTML document: the raw HTML came back.
C9_Witness ==
  \E r \in Reqs :
    /\ IsOpaque(r)
    /\ ForceRaw(r)
    /\ DeclaredHtml(r)
    /\ HasHtmlMarker(r)
    /\ net[r].article.parsed
    /\ SliceOf(r) = net[r].text
    /\ Len(SliceOf(r)) > 0

\* C10: a request cancelled while its retrieval is in flight ends in an
\* error response, and none of the steps after the retrieval (reading the
\* body, extraction, pagination) runs for it; and no request issues more than
\* one retrieval.
C10_CancelStopsThePipeline ==
  \A r \in Reqs :
    /\ aborted[r] = "fetching"
       => /\ pc[r] # "reading"
          /\ fetched[r].branch = "none"
          /\ pc[r] = "done" => resp[r].isError
    /\ fetches[r] <= 1

=============================================================================
